---- MODULE Spec2Model ----
(***************************************************************************)
(* Request middlewares of splash (splash/request_middleware.py):           *)
(* AllowedDomainsMiddleware, RequestLoggingMiddleware, AdblockMiddleware   *)
(* and the RulesRegistry the last one consults.                            *)
(*                                                                         *)
(* Strings are sequences of symbols.  A symbol is one character ("a", ".", *)
(* ",") or an atom standing for a fixed run of characters that the model   *)
(* never takes apart ("default", "none", ".txt", "http://").               *)
(***************************************************************************)
EXTENDS Integers, Sequences, FiniteSets, TLC

\* ------------------------------------------------------------------ bounds
MaxHostLen == 3
MaxDomainsLen == 3
MaxFiltersLen == 3
MaxRequests == 2

\* Strings over alphabet A of length at most n.
StringsUpTo(A, n) == UNION {[1..k -> A] : k \in 0..n}

\* ------------------------------------------------------- python-like values
None == [t |-> "None", s |-> <<>>]
Str(s) == [t |-> "str", s |-> s]
Missing == [t |-> "missing", s |-> <<>>]
REQUIRED == [t |-> "required", s |-> <<>>]
BadRequest == [t |-> "BadRequest", s |-> <<>>]

\* splash.utils.getarg: the value of a session argument, the default when the
\* argument is missing, an error when it is missing and no default was given.
getarg(splash_request, name, default) ==
    IF splash_request[name] # Missing THEN splash_request[name]
    ELSE IF default = REQUIRED THEN BadRequest
    ELSE default

\* str.split(','): the pieces between commas; never the empty list.
RECURSIVE split(_)
split(s) ==
    IF \A i \in 1..Len(s) : s[i] # ","
    THEN <<s>>
    ELSE LET i == CHOOSE j \in 1..Len(s) :
                      s[j] = "," /\ \A k \in 1..(j-1) : s[k] # ","
         IN  <<SubSeq(s, 1, i-1)>> \o split(SubSeq(s, i+1, Len(s)))

\* ------------------------------------------------------------------- QUrl
\* A URL is its host and the rest of it; QUrl('') is the invalid URL, whose
\* host() and toString() are both empty.
QUrlEmpty == [host |-> <<>>, rest |-> ""]
Voided(url) == url = QUrlEmpty

\* _drop_request: request.setUrl(QUrl(''))
drop_request(url) == QUrlEmpty

\* --------------------------------------------- AllowedDomainsMiddleware
\* AllowedDomainsMiddleware._get_allowed_domains
get_allowed_domains(splash_request) ==
    LET allowed_domains == getarg(splash_request, "allowed_domains", None)
    IN  IF allowed_domains # None
        THEN [t |-> "list", l |-> split(allowed_domains.s)]
        ELSE [t |-> "None", l |-> <<>>]

\* re.IGNORECASE folds the case of both sides.
lower(c) == IF c = "A" THEN "a" ELSE IF c = "B" THEN "b" ELSE c

\* d.replace('.', r'\.') left out: the dots stay wildcards
escape_dots_not(d) == d
\* d.replace('.', r'\.'): a pattern is a sequence of regex tokens; "\\." is
\* the escaped (literal) dot, "." the wildcard, anything else a literal.
escape_dots(d) == [i \in 1..Len(d) |-> IF d[i] = "." THEN "\\." ELSE d[i]]

\* One regex token against one character, under re.IGNORECASE.
token_matches(tok, ch) ==
    IF tok = "\\." THEN ch = "."
    ELSE IF tok = "." THEN TRUE
    ELSE lower(tok) = lower(ch)

\* A whole pattern against a whole string.
pattern_matches(pat, s) ==
    /\ Len(pat) = Len(s)
    /\ \A i \in 1..Len(s) : token_matches(pat[i], s[i])

\* AllowedDomainsMiddleware._get_host_regex.  The compiled regex is
\*   all = TRUE                     re.compile('')
\*   subdomains = TRUE              (.*\.)?(d1|d2|...)$
\*   subdomains = FALSE             (d1|d2|...)$
get_host_regex(allowed_domains, allow_subdomains_) ==
    IF allowed_domains.t = "None" \/ allowed_domains.l = <<>>
    THEN [all |-> TRUE, subdomains |-> FALSE, domains |-> <<>>]
    ELSE [all |-> FALSE,
          subdomains |-> allow_subdomains_,
          domains |-> [k \in 1..Len(allowed_domains.l) |->
                          escape_dots(allowed_domains.l[k])]]

\* host_re.match(host): anchored at the start; the optional group (.*\.)
\* takes a prefix ending in a dot, one alternative takes the rest up to $.
re_match(host_re, host) ==
    \/ host_re.all
    \/ \E i \in 0..Len(host) :
          /\ \/ i = 0
             \/ host_re.subdomains /\ host[i] = "."
          /\ \E k \in 1..Len(host_re.domains) :
                pattern_matches(host_re.domains[k], SubSeq(host, i+1, Len(host)))

VARIABLES
    allow_subdomains,   \* AllowedDomainsMiddleware.allow_subdomains
    verbosity,          \* the verbosity the components were built with
    directory,          \* the entries of the filters directory
    pending,            \* entries _load has not visited yet
    filters,            \* RulesRegistry.filters: name -> compiled rules
    regState,           \* "loading", "ready" (constructed) or "failed" (raised)
    requests,           \* the descriptors in flight, with their session args
    last                \* the most recent process call and what it did

vars == <<allow_subdomains, verbosity, directory, pending, filters, regState,
          requests, last>>

\* What a process call did: the URL it left, how it ended, the log events it
\* emitted, whether it asked the registry for a blocking filter and the answer.
Returned(url, logs, queried, blocking) ==
    [url |-> url, outcome |-> "returned", logs |-> logs,
     queried |-> queried, blocking |-> blocking]
Raised(url) ==
    [url |-> url, outcome |-> "raised", logs |-> 0,
     queried |-> FALSE, blocking |-> None]

\* AllowedDomainsMiddleware.process that also restores a URL it lets through
AllowedDomainsMiddleware_process_restoring(url, splash_request) ==
    LET allowed_domains == get_allowed_domains(splash_request)
        host_re == get_host_regex(allowed_domains, allow_subdomains)
    IN  IF ~re_match(host_re, url.host)
        THEN Returned(drop_request(url), IF verbosity >= 2 THEN 1 ELSE 0, FALSE, None)
        ELSE Returned([host |-> <<>>, rest |-> "blank"], 0, FALSE, None)
\* AllowedDomainsMiddleware.process
AllowedDomainsMiddleware_process(url, splash_request) ==
    LET allowed_domains == get_allowed_domains(splash_request)
        host_re == get_host_regex(allowed_domains, allow_subdomains)
    IN  IF ~re_match(host_re, url.host)
        THEN Returned(drop_request(url), IF verbosity >= 2 THEN 1 ELSE 0, FALSE, None)
        ELSE Returned(url, 0, FALSE, None)

\* ------------------------------------------------ RequestLoggingMiddleware
\* RequestLoggingMiddleware.process that drops the request as its siblings do
RequestLoggingMiddleware_process_dropping(url, splash_request) ==
    Returned(drop_request(url), 1, FALSE, None)
\* RequestLoggingMiddleware.process: one log.msg, the request untouched
RequestLoggingMiddleware_process(url, splash_request) ==
    Returned(url, 1, FALSE, None)

\* ------------------------------------------------------------ RulesRegistry
\* A directory entry: its name, whether os.path.isfile holds, and its lines.
\* A line is a rule: the piece of a URL it blocks, the $domain= option that
\* restricts it (<<>> when it has none) and whether the matcher supports it.
Rule(pat, domain, supported) == [pat |-> pat, domain |-> domain, supported |-> supported]
Entry(fname, isfile, lines) == [fname |-> fname, isfile |-> isfile, lines |-> lines]

\* fname.endswith('.txt') taken to hold of every name
endswith_txt_any(fname) == TRUE
\* fname.endswith('.txt')
endswith_txt(fname) == Len(fname) >= 1 /\ fname[Len(fname)] = ".txt"

\* fname[:-len('.txt')]
strip_txt(fname) == SubSeq(fname, 1, Len(fname) - 1)

\* adblockparser.AdblockRules(lines, supported_options=('domain',),
\* skip_unsupported_rules=False): raises on a rule it does not support.
AdblockRules_raises(lines) == \E r \in lines : ~r.supported
AdblockRules(lines) == lines

\* AdblockRules.should_block(url, options)
should_block(rules, url, options) ==
    \E r \in rules :
        /\ \E i \in 1..Len(url) : url[i] = r.pat
        /\ r.domain = <<>> \/ r.domain = options.domain

\* One round of the loop of _load that swallows the error of a file and goes on
load_file_lenient(fs, e) ==
    IF ~endswith_txt(e.fname) \/ ~e.isfile \/ AdblockRules_raises(e.lines)
    THEN [filters |-> fs, raised |-> FALSE]
    ELSE [filters |-> (strip_txt(e.fname) :> AdblockRules(e.lines)) @@ fs,
          raised |-> FALSE]
\* One round of the loop of RulesRegistry._load, on directory entry e.
load_file(fs, e) ==
    IF ~endswith_txt(e.fname) \/ ~e.isfile
    THEN [filters |-> fs, raised |-> FALSE]
    ELSE IF AdblockRules_raises(e.lines)
    THEN [filters |-> fs, raised |-> TRUE]
    ELSE [filters |-> (strip_txt(e.fname) :> AdblockRules(e.lines)) @@ fs,
          raised |-> FALSE]

\* RulesRegistry.filter_is_known
filter_is_known(name) == name \in DOMAIN filters

\* get_blocking_filter where the last matching name wins
RECURSIVE get_blocking_filter_last(_, _, _)
get_blocking_filter_last(filter_names, url, options) ==
    IF filter_names = <<>> THEN None
    ELSE LET name == filter_names[Len(filter_names)]
         IN  IF name \in DOMAIN filters /\ should_block(filters[name], url, options)
             THEN Str(name)
             ELSE get_blocking_filter_last(
                      SubSeq(filter_names, 1, Len(filter_names) - 1), url, options)
\* RulesRegistry.get_blocking_filter: the second loop, which returns the
\* first known name whose rules block; None when the loop runs out.
RECURSIVE get_blocking_filter(_, _, _)
get_blocking_filter(filter_names, url, options) ==
    IF filter_names = <<>> THEN None
    ELSE LET name == Head(filter_names)
         IN  IF name \notin DOMAIN filters
             THEN get_blocking_filter(Tail(filter_names), url, options)
             ELSE IF should_block(filters[name], url, options)
             THEN Str(name)
             ELSE get_blocking_filter(Tail(filter_names), url, options)

\* The first loop of get_blocking_filter: one "Invalid filter name" log event
\* for each unknown name, at verbosity 1 and above.
invalid_name_logs(filter_names) ==
    IF verbosity >= 1
    THEN Cardinality({i \in 1..Len(filter_names) : filter_names[i] \notin DOMAIN filters})
    ELSE 0

\* -------------------------------------------------------- AdblockMiddleware
\* QUrl.toString(): the host followed by the rest; empty for QUrl('').
QUrl_toString(url) == IF Voided(url) THEN <<>> ELSE url.host \o <<url.rest>>

\* urlparse.urlsplit(s).netloc: what follows the scheme up to the next "/".
netloc(s) ==
    IF Len(s) >= 1 /\ s[1] = "http://"
    THEN LET ends == {i \in 2..Len(s) : s[i] = "/"}
             stop == IF ends = {} THEN Len(s) + 1
                     ELSE CHOOSE i \in ends : \A j \in ends : i <= j
         IN  SubSeq(s, 2, stop - 1)
    ELSE <<>>

\* [f for f in getarg(splash_request, "filters", default="").split(',') if f]
filter_names_of(splash_request) ==
    SelectSeq(split(getarg(splash_request, "filters", Str(<<>>)).s),
              LAMBDA f : f # <<>>)

\* AdblockMiddleware.process from line 101 on, with the names settled.
adblock_filter(url, splash_request, filter_names) ==
    LET page == getarg(splash_request, "url", REQUIRED)
    IN  IF page = BadRequest
        THEN Raised(url)
        ELSE LET options == [domain |-> netloc(page.s)]
                 blocking_filter ==
                     get_blocking_filter(filter_names, QUrl_toString(url), options)
                 warned == invalid_name_logs(filter_names)
             IN  IF blocking_filter # None /\ blocking_filter.s # <<>>
                 THEN Returned(drop_request(url),
                               warned + (IF verbosity >= 2 THEN 1 ELSE 0),
                               TRUE, blocking_filter)
                 ELSE Returned(url, warned, TRUE, blocking_filter)

\* AdblockMiddleware.process without the test for ['none']
AdblockMiddleware_process_no_bypass(url, splash_request) ==
    LET filter_names == filter_names_of(splash_request)
    IN  IF filter_names = <<>>
        THEN IF filter_is_known(<<"default">>)
             THEN adblock_filter(url, splash_request, << <<"default">> >>)
             ELSE Returned(url, 0, FALSE, None)
        ELSE adblock_filter(url, splash_request, filter_names)
\* AdblockMiddleware.process without the fallback to 'default'
AdblockMiddleware_process_no_default(url, splash_request) ==
    LET filter_names == filter_names_of(splash_request)
    IN  IF filter_names = << <<"none">> >> \/ filter_names = <<>>
        THEN Returned(url, 0, FALSE, None)
        ELSE adblock_filter(url, splash_request, filter_names)
\* AdblockMiddleware.process
AdblockMiddleware_process(url, splash_request) ==
    LET filter_names == filter_names_of(splash_request)
    IN  IF filter_names = << <<"none">> >>
        THEN Returned(url, 0, FALSE, None)
        ELSE IF filter_names = <<>>
        THEN IF filter_is_known(<<"default">>)
             THEN adblock_filter(url, splash_request, << <<"default">> >>)
             ELSE Returned(url, 0, FALSE, None)
        ELSE adblock_filter(url, splash_request, filter_names)

\* ------------------------------------------------------------------ inputs
HostAlphabet == {"a", "A", "b", "."}
Hosts == StringsUpTo(HostAlphabet, MaxHostLen)
DomainArgs == StringsUpTo(HostAlphabet \cup {","}, MaxDomainsLen)
FilterArgs == StringsUpTo({"default", "none", "a", ","}, MaxFiltersLen)

Args(allowed_domains, filters_, url) ==
    [allowed_domains |-> allowed_domains, filters |-> filters_, url |-> url]
NoArgs == Args(Missing, Missing, Missing)

AdsUrl == [host |-> <<"a">>, rest |-> "/ads/"]
OkUrl == [host |-> <<"b">>, rest |-> "/ok/"]
SitePage == <<"http://", "site", "/">>

\* The requests the allow-list is examined on: every host, every list.
DomainUrls == {[host |-> h, rest |-> "/ok/"] : h \in Hosts}
DomainArgSets ==
    {Args(d, Missing, Missing) : d \in {Missing} \cup {Str(v) : v \in DomainArgs}}

\* The requests the ad blocker is examined on: every filters argument, a page
\* URL that is missing, empty, without a scheme, or that of a site.
AdblockUrls == {AdsUrl, OkUrl, QUrlEmpty}
PageArgs == {Missing, Str(<<>>), Str(<<"site">>), Str(SitePage)}
AdblockArgSets ==
    {Args(Missing, f, u) : f \in {Missing} \cup {Str(v) : v \in FilterArgs},
                           u \in PageArgs}

\* The requests of the whole pipeline.
PipelineUrls == {AdsUrl, OkUrl}
PipelineArgSets ==
    {Args(d, f, u) :
        d \in {Missing, Str(<<>>), Str(<<"a">>)},
        f \in {Missing, Str(<<"none">>), Str(<<"a", ",", "default">>)},
        u \in {Missing, Str(SitePage)}}

\* The requests that run against a registry loaded from any directory.
RegistryUrls == {AdsUrl}
RegistryArgSets ==
    {NoArgs, Args(Missing, Str(<<"a", ",", "default">>), Str(SitePage))}

\* The files a filters directory may hold.
AdsAnywhere == {Rule("/ads/", <<>>, TRUE)}
AdsOnSite == {Rule("/ads/", <<"site">>, TRUE)}
Unsupported == {Rule("/ads/", <<>>, TRUE), Rule("/ok/", <<>>, FALSE)}
GoodEntries ==
    {Entry(<<"default", ".txt">>, TRUE, AdsAnywhere),
     Entry(<<"none", ".txt">>, TRUE, AdsAnywhere),
     Entry(<<"a", ".txt">>, TRUE, AdsOnSite)}
OtherEntries ==
    {Entry(<<"b", ".txt">>, TRUE, Unsupported),
     Entry(<<"c", ".md">>, TRUE, AdsAnywhere),
     Entry(<<"d", ".txt">>, FALSE, {})}

Idle == [live |-> FALSE, url |-> QUrlEmpty, args |-> NoArgs]
NoCall == [mw |-> "none", id |-> 0, before |-> QUrlEmpty,
           res |-> Returned(QUrlEmpty, 0, FALSE, None)]

\* ----------------------------------------------------------------- actions
InitWith(dirs) ==
    /\ allow_subdomains \in BOOLEAN
    /\ verbosity \in 0..2
    /\ directory \in dirs
    /\ pending = directory
    /\ filters = <<>>
    /\ regState = "loading"
    /\ requests = [i \in 1..MaxRequests |-> Idle]
    /\ last = NoCall

\* RulesRegistry._load visits one more entry, in the order os.listdir gives.
LoadFile ==
    /\ regState = "loading"
    /\ \E e \in pending :
          LET r == load_file(filters, e)
          IN  /\ pending' = pending \ {e}
              /\ filters' = r.filters
              /\ regState' = IF r.raised THEN "failed" ELSE "loading"
    /\ UNCHANGED <<allow_subdomains, verbosity, directory, requests, last>>

\* RulesRegistry.__init__ returns: the registry exists from here on.
LoadDone ==
    /\ regState = "loading"
    /\ pending = {}
    /\ regState' = "ready"
    /\ UNCHANGED <<allow_subdomains, verbosity, directory, pending, filters,
                   requests, last>>

\* The host hands a descriptor and its session arguments to the pipeline.
NewRequest(i, urls, argsets) ==
    /\ regState = "ready"
    /\ ~requests[i].live
    /\ \E u \in urls, a \in argsets :
          requests' = [requests EXCEPT ![i] = [live |-> TRUE, url |-> u, args |-> a]]
    /\ UNCHANGED <<allow_subdomains, verbosity, directory, pending, filters,
                   regState, last>>

\* One process call on descriptor i, with result res.
Call(i, mw, res) ==
    /\ requests' = [requests EXCEPT ![i].url = res.url]
    /\ last' = [mw |-> mw, id |-> i, before |-> requests[i].url, res |-> res]
    /\ UNCHANGED <<allow_subdomains, verbosity, directory, pending, filters,
                   regState>>

AllowedDomainsProcess(i) ==
    /\ requests[i].live
    /\ Call(i, "allowed", AllowedDomainsMiddleware_process(requests[i].url, requests[i].args))

RequestLoggingProcess(i) ==
    /\ requests[i].live
    /\ Call(i, "logging", RequestLoggingMiddleware_process(requests[i].url, requests[i].args))

AdblockProcess(i) ==
    /\ requests[i].live
    /\ regState = "ready"
    /\ Call(i, "adblock", AdblockMiddleware_process(requests[i].url, requests[i].args))

\* The pipeline is over: the descriptor goes back to the host.
Deliver(i) ==
    /\ requests[i].live
    /\ requests' = [requests EXCEPT ![i] = Idle]
    /\ last' = IF last.id = i THEN NoCall ELSE last
    /\ UNCHANGED <<allow_subdomains, verbosity, directory, pending, filters,
                   regState>>

\* ---------------------------------------------------------- specifications
\* The pipeline on one descriptor: the three middlewares in any order, any
\* number of times, over an empty and a full filters directory.
Init == InitWith({{}, GoodEntries})
Next ==
    \/ LoadFile
    \/ LoadDone
    \/ NewRequest(1, PipelineUrls, PipelineArgSets)
    \/ AllowedDomainsProcess(1)
    \/ RequestLoggingProcess(1)
    \/ AdblockProcess(1)
    \/ Deliver(1)
Spec == Init /\ [][Next]_vars

\* The registry: its load over any directory, then interleaved requests.
InitRegistry == InitWith(SUBSET (GoodEntries \cup OtherEntries))
NextRegistry ==
    \/ LoadFile
    \/ LoadDone
    \/ \E i \in 1..MaxRequests : NewRequest(i, RegistryUrls, RegistryArgSets)
    \/ \E i \in 1..MaxRequests : AllowedDomainsProcess(i)
    \/ \E i \in 1..MaxRequests : RequestLoggingProcess(i)
    \/ \E i \in 1..MaxRequests : AdblockProcess(i)
    \/ \E i \in 1..MaxRequests : Deliver(i)
SpecRegistry == InitRegistry /\ [][NextRegistry]_vars

\* The allow-list alone, over every host and every allowed_domains value.
InitDomains == InitWith({{}})
NextDomains ==
    \/ LoadDone
    \/ NewRequest(1, DomainUrls, DomainArgSets)
    \/ AllowedDomainsProcess(1)
SpecDomains == InitDomains /\ [][NextDomains]_vars

\* The ad blocker alone, over every filters value and every good directory.
InitAdblock == InitWith(SUBSET GoodEntries)
NextAdblock ==
    \/ LoadFile
    \/ LoadDone
    \/ NewRequest(1, AdblockUrls, AdblockArgSets)
    \/ AdblockProcess(1)
SpecAdblock == InitAdblock /\ [][NextAdblock]_vars

\* ------------------------------------------------------------------ claims
\* s with the case of its letters folded
Fold(s) == [i \in 1..Len(s) |-> lower(s[i])]

\* host is D itself or, with subdomains allowed, x + "." + D for some x
HostIsListed(host, D, subdomains) ==
    \/ Fold(host) = Fold(D)
    \/ /\ subdomains
       /\ Len(host) >= Len(D) + 1
       /\ host[Len(host) - Len(D)] = "."
       /\ Fold(SubSeq(host, Len(host) - Len(D) + 1, Len(host))) = Fold(D)

\* The last call was process of middleware mw on an un-voided descriptor.
LastOn(mw) == last.mw = mw /\ requests[last.id].live
LastArgs == requests[last.id].args
LastUrl == requests[last.id].url

\* C1: with a non-empty allowed_domains value, AllowedDomainsMiddleware.process
\* leaves an un-voided request un-voided (and its URL as it was) if and only
\* if its host is, case-insensitively, a listed domain D or, with
\* allow_subdomains, of the form x + "." + D; every other host is voided.
C1_AllowListExact ==
    (/\ LastOn("allowed")
     /\ ~Voided(last.before)
     /\ LastArgs.allowed_domains # Missing
     /\ LastArgs.allowed_domains.s # <<>>)
    => LET domains == split(LastArgs.allowed_domains.s)
           listed == \E k \in 1..Len(domains) :
                        HostIsListed(last.before.host, domains[k], allow_subdomains)
       IN  /\ last.res.outcome = "returned"
           /\ listed => LastUrl = last.before
           /\ ~listed => Voided(LastUrl)

\* A subdomain of a listed domain, in another case, passed.
C1_Witness ==
    /\ LastOn("allowed")
    /\ allow_subdomains
    /\ LastArgs.allowed_domains = Str(<<"a", ",", "b">>)
    /\ last.before.host = <<"A", ".", "a">>
    /\ LastUrl = last.before

\* C2: with allowed_domains missing or present with the empty string as its
\* value, AllowedDomainsMiddleware.process never voids the request.
C2_EmptyAllowsAll ==
    (/\ LastOn("allowed")
     /\ ~Voided(last.before)
     /\ LastArgs.allowed_domains \in {Missing, Str(<<>>)})
    => LastUrl = last.before

\* C3: when the filters argument yields exactly ['none'],
\* AdblockMiddleware.process returns the request as it was and does not ask
\* the registry for a blocking filter.
C3_NoneBypasses ==
    (LastOn("adblock") /\ filter_names_of(LastArgs) = << <<"none">> >>)
    => /\ last.res.outcome = "returned"
       /\ LastUrl = last.before
       /\ ~last.res.queried

\* filters=none let through a URL that a known filter named "none" blocks.
C3_Witness ==
    /\ LastOn("adblock")
    /\ LastArgs.filters = Str(<<",", "none">>)
    /\ LastArgs.url = Str(SitePage)
    /\ last.before = AdsUrl
    /\ LastUrl = AdsUrl
    /\ <<"none">> \in DOMAIN filters
    /\ should_block(filters[<<"none">>], QUrl_toString(AdsUrl), [domain |-> <<"site">>])

\* C4: when the filters argument is missing or yields no non-empty name,
\* AdblockMiddleware.process ends as it does for filters=default if the
\* registry knows "default", and returns the request as it was if not.
C4_DefaultFallback ==
    (LastOn("adblock") /\ filter_names_of(LastArgs) = <<>>)
    => IF <<"default">> \in DOMAIN filters
       THEN LET asDefault ==
                    AdblockMiddleware_process(
                        last.before, [LastArgs EXCEPT !.filters = Str(<<"default">>)])
            IN  /\ last.res.outcome = asDefault.outcome
                /\ LastUrl = asDefault.url
       ELSE /\ last.res.outcome = "returned"
            /\ LastUrl = last.before

\* A request with no filter names was voided by the "default" filter.
C4_Witness ==
    /\ LastOn("adblock")
    /\ LastArgs.filters = Str(<<",">>)
    /\ last.before = AdsUrl
    /\ Voided(LastUrl)
    /\ last.res.blocking = Str(<<"default">>)

\* The names get_blocking_filter was called with.
NamesAsked ==
    IF filter_names_of(LastArgs) = <<>>
    THEN << <<"default">> >>
    ELSE filter_names_of(LastArgs)

\* The places of NamesAsked that hold a known name whose rules block.
BlockingPlaces ==
    {i \in 1..Len(NamesAsked) :
        /\ NamesAsked[i] \in DOMAIN filters
        /\ should_block(filters[NamesAsked[i]], QUrl_toString(last.before),
                        [domain |-> netloc(LastArgs.url.s)])}

\* C5: get_blocking_filter returns the name at the smallest place of the
\* names that is known and whose rules block; unknown names are skipped and
\* never returned; when no place blocks it returns none and the request is
\* left as it was.
C5_FirstMatchWins ==
    (LastOn("adblock") /\ last.res.queried)
    => IF BlockingPlaces = {}
       THEN /\ last.res.blocking = None
            /\ LastUrl = last.before
       ELSE LET first == CHOOSE i \in BlockingPlaces : \A j \in BlockingPlaces : i <= j
            IN  /\ last.res.blocking = Str(NamesAsked[first])
                /\ NamesAsked[first] \in DOMAIN filters
                /\ Voided(LastUrl)

\* Two names block; the one that comes first was returned.
C5_Witness ==
    /\ LastOn("adblock")
    /\ LastArgs.filters = Str(<<"a", ",", "default">>)
    /\ Cardinality(BlockingPlaces) = 2
    /\ last.res.blocking = Str(<<"a">>)
    /\ Voided(LastUrl)

\* C6: no process call ends in an error, whatever session arguments are
\* missing or empty.
C6_NeverRaises == last.res.outcome # "raised"

\* A regular file whose name ends in .txt, and the filter name it gives.
TxtFile(e) == e.isfile /\ e.fname # <<>> /\ e.fname[Len(e.fname)] = ".txt"
Stem(e) == SubSeq(e.fname, 1, Len(e.fname) - 1)
FailsToCompile(e) == \E r \in e.lines : ~r.supported

\* C7: if a .txt file of the directory fails to compile, the registry never
\* becomes available and no request is served; a registry that is available
\* holds a filter set for every .txt file of the directory.
C7_LoadAllOrNothing ==
    /\ (\E e \in directory : TxtFile(e) /\ FailsToCompile(e))
          => /\ regState # "ready"
             /\ \A i \in 1..MaxRequests : ~requests[i].live
             /\ last = NoCall
    /\ (regState = "ready" \/ last # NoCall \/ \E i \in 1..MaxRequests : requests[i].live)
          => /\ regState = "ready"
             /\ \A e \in directory : TxtFile(e) => Stem(e) \in DOMAIN filters

\* The load failed after other files of the directory had compiled.
C7_Witness ==
    /\ regState = "failed"
    /\ DOMAIN filters # {}
    /\ pending # {}

NameUniverse ==
    {<<>>, <<"default">>, <<"none">>, <<"a">>, <<"b">>, <<"c">>, <<"d">>,
     <<"a", ".txt">>, <<"c", ".md">>}

\* filter_is_known holds exactly of the stems of the directory's .txt files.
KnownExact ==
    /\ \A name \in NameUniverse :
          filter_is_known(name) <=> \E e \in directory : TxtFile(e) /\ Stem(e) = name
    /\ DOMAIN filters = {Stem(e) : e \in {f \in directory : TxtFile(f)}}

\* C8: once the load has succeeded, filter_is_known holds exactly of the
\* names of the regular .txt files of the directory, and no later step
\* changes the registry's mapping.
C8_KnownNamesFixed ==
    [][/\ regState' = "ready" => KnownExact'
       /\ regState = "ready" => (filters' = filters /\ regState' = "ready"
                                 /\ directory' = directory)]_vars

\* Two requests in flight on a registry that skipped a directory and a .md
\* file, the last call having asked the registry.
C8_Witness ==
    /\ regState = "ready"
    /\ \A i \in 1..2 : requests[i].live
    /\ last.mw = "adblock" /\ last.res.queried
    /\ \E e \in directory : ~e.isfile
    /\ \E e \in directory : e.fname = <<"c", ".md">>
    /\ KnownExact

\* C9: RequestLoggingMiddleware.process returns the request with its URL as
\* it was, voided or not, and emits exactly one log event.
C9_LoggingNoEffect ==
    LastOn("logging")
    => /\ last.res.outcome = "returned"
       /\ LastUrl = last.before
       /\ last.res.logs = 1
       /\ ~last.res.queried

\* The logger ran on a request that is not voided.
C9_Witness ==
    /\ LastOn("logging")
    /\ last.before = AdsUrl
    /\ LastUrl = AdsUrl

\* C10: a descriptor that is voided is still voided after every later
\* process call on it.
C10_VoidAbsorbing ==
    [][\A i \in 1..MaxRequests :
          (requests[i].live /\ requests'[i].live /\ Voided(requests[i].url))
              => Voided(requests'[i].url)]_vars

\* A middleware ran on a descriptor an earlier one had voided.
C10_Witness ==
    /\ LastOn("allowed")
    /\ Voided(last.before)
    /\ Voided(LastUrl)
    /\ LastArgs.allowed_domains = Missing
====
